---- MODULE Spec2Model ----
(***************************************************************************)
(* Model of the chained mirror Lambda (main.go): the handler, the          *)
(* repository list provider, mirrorSingleRepo and invokeSelfAsync, run      *)
(* against a source registry, a destination registry (ECR) and the Lambda   *)
(* asynchronous invocation queue.                                           *)
(*                                                                          *)
(* An invocation is a process; its position (pc) is the network call it is  *)
(* about to make.  Each action is one network call together with all the    *)
(* local code that follows it up to the next network call or the return.    *)
(***************************************************************************)
EXTENDS Integers, Sequences, FiniteSets, TLC

\* ---------------------------------------------------------------- bounds
\* Longest repository list a configuration holds.
MaxList == 3
\* Invocations triggered in one behaviour of Spec; they may all overlap.
MaxInv == 2
\* Invocations triggered, one after the other, in one behaviour of SpecSeq.
MaxRuns == 2
\* Pushes to the source registry in one behaviour.
MaxSrcChanges == 1
\* Changes of the configured repository list in one behaviour of SpecChain.
MaxListChanges == 1

\* The static fallback list of loadRepoList has three entries.
FallbackLen == 3

\* ---------------------------------------------------------------- values
None == "none"

Tags == {"latest", "v1"}
\* d1 is a single image, d2 an image index, d3 a later push (single image);
\* d0 is an older digest the destination may still hold.
Digests == {"d1", "d2", "d3"}
StaleDigest == "d0"

\* desc.MediaType.IsIndex(): the media type is part of the manifest the digest
\* identifies.
IsIndex(d) == d = "d2"

MaxOf(a, b) == IF a >= b THEN a ELSE b
Paths == 1..MaxOf(MaxList, FallbackLen)

\* A repository identifier "<registry>/<group>/<name>": reg is its host prefix
\* ("" when the identifier has none), path stands for "<group>/<name>".
Repo(n) == [reg |-> "cgr.dev", path |-> n]
NoHostRepo(n) == [reg |-> "", path |-> n]
RepoIds == {Repo(n) : n \in Paths} \cup {NoHostRepo(1)}
\* The empty string, in the place of an identifier.
Blank == [reg |-> "", path |-> 0]

\* A string as configured or received: the identifier it holds (Blank when it
\* is empty or whitespace only) and whether whitespace surrounds it.
Raw(v, p) == [val |-> v, pad |-> p]

\* strings.TrimSpace
TrimSpace(s) == s.val

\* ---------------------------------------------------------------- state
VARIABLES
  env,        \* process environment: configuration of every invocation
  srcReg,     \* source registry: repository -> tag -> digest or None
  dstRepos,   \* destination registry: names of the repositories that exist
  dstTags,    \* destination registry: <<name, tag>> -> [digest, index] or None
  inv,        \* the invocations started so far, in order of start
  queue,      \* continuation payloads dispatched and not yet delivered
  nSrc,       \* pushes to the source so far
  nCfg        \* changes of the configured list so far

vars == <<env, srcReg, dstRepos, dstTags, inv, queue, nSrc, nCfg>>

\* ---------------------------------------------------------------- event parsing
\* START_INDEX is unset (or blank), not an integer ("nan"), or an integer:
\* strconv.Atoi succeeds on the last only.
StartIndexOf(e) ==
  IF e.startIndex.kind = "int" THEN e.startIndex.val ELSE 0

\* parseJobEvent: a payload is empty (zero length), invalid (not a JSON object
\* of the JobEvent shape) or a JSON object whose absent fields are zero values;
\* the object without fields, '{}', is of kind "object" and decodes to the
\* zero JobEvent.
parseJobEvent(raw, e) ==
  CASE raw.kind = "empty" ->
         [err |-> FALSE, evt |-> [index |-> StartIndexOf(e), repo |-> Raw(Blank, FALSE)]]
    [] raw.kind = "invalid" ->
         [err |-> TRUE, evt |-> [index |-> 0, repo |-> Raw(Blank, FALSE)]]
    [] OTHER ->
         [err |-> FALSE, evt |-> [index |-> raw.index, repo |-> raw.repo]]

\* ---------------------------------------------------------------- repo list
RECURSIVE normalizeRepoList(_)
\* normalizeRepoList: trims every entry and drops the blank ones.
normalizeRepoList(in) ==
  IF in = << >> THEN << >>
  ELSE LET t == TrimSpace(Head(in))
       IN  (IF t # Blank THEN <<t>> ELSE << >>) \o normalizeRepoList(Tail(in))

\* loadReposFromSSM: the parameter read fails, or its value is a JSON array or
\* delimited text.
loadReposFromSSM(e, ssmOk) ==
  IF ~ssmOk \/ e.ssmValue.kind = "unset"
  THEN [err |-> TRUE, repos |-> << >>]
  ELSE [err |-> FALSE, repos |-> normalizeRepoList(e.ssmValue.items)]

\* loadRepoList: REPO_LIST_JSON, then REPO_LIST_CSV, then the SSM parameter,
\* then the static fallback.  A list variable is "unset" (or blank), "invalid"
\* (not a JSON array of strings), or a "list" of the entries it holds.
loadRepoList(e, ssmOk) ==
  IF e.listJson.kind = "list"
  THEN [err |-> FALSE, repos |-> normalizeRepoList(e.listJson.items)]
  ELSE IF e.listCsv.kind = "list"
  THEN [err |-> FALSE, repos |-> normalizeRepoList(e.listCsv.items)]
  ELSE IF e.ssmParam
  THEN loadReposFromSSM(e, ssmOk)
  ELSE [err |-> FALSE, repos |-> [n \in 1..FallbackLen |-> Repo(n)]]

\* ---------------------------------------------------------------- invocation
\* The error an invocation returns is named by the call that failed; None is
\* a nil return.  "exists" is the error of a creation call that found the
\* repository there already, "create" any other error of that call.
TagErrors == {"get", "read", "write"}
MirrorErrors == {"creds", "auth", "describe", "create", "exists", "list"} \cup TagErrors

\* mirrorSingleRepo, step 3: the destination repository name is the source
\* identifier without the source registry prefix, under DST_PREFIX.
dstRepoName(srcRepo, e) ==
  [prefix |-> e.dstPrefix,
   host   |-> IF srcRepo.reg = e.srcRegistry THEN "" ELSE srcRepo.reg,
   path   |-> srcRepo.path]

\* The values of DST_PREFIX the configurations use.
DstPrefixes == {"", "mirror"}
DstNames ==
  {dstRepoName(r, [dstPrefix |-> p, srcRegistry |-> "cgr.dev"]) :
     r \in RepoIds \cup {Blank}, p \in DstPrefixes}

NoLookup == [ok |-> FALSE, digest |-> None]

\* The handler returns: the invocation ends and its locals are gone.
Return(v, err) ==
  [v EXCEPT !.pc = "done", !.err = err, !.tags = << >>, !.k = 0,
            !.srcDigest = None, !.lookup = NoLookup]

\* A continuation that carries the index just processed.
NextIndexSame(v) == v.evt.index

\* A continuation that leaves one index out.
NextIndexSkip(v) == v.evt.index + 2

\* handler, line 89: the index a continuation carries.
NextIndex(v) == v.evt.index + 1

\* A continuation is due while the next index is at most the list's length.
AfterMirrorInclusive(v, err) ==
  IF err # None
  THEN Return(v, err)
  ELSE IF v.explicit
  THEN Return(v, None)
  ELSE IF NextIndex(v) <= Len(v.repos)
  THEN [Return(v, None) EXCEPT !.pc = "invoke"]
  ELSE [Return(v, None) EXCEPT !.completed = TRUE]

\* The explicit-repo branch falls through to the chaining code.
AfterMirrorNoExplicit(v, err) ==
  IF err # None
  THEN Return(v, err)
  ELSE IF NextIndex(v) < Len(v.repos)
  THEN [Return(v, None) EXCEPT !.pc = "invoke"]
  ELSE [Return(v, None) EXCEPT !.completed = ~v.explicit]

\* The error of the pass is kept for the return value, and the next index is
\* dispatched all the same.
AfterMirrorChainOnError(v, err) ==
  IF v.explicit
  THEN Return(v, err)
  ELSE IF NextIndex(v) < Len(v.repos)
  THEN [Return(v, err) EXCEPT !.pc = "invoke"]
  ELSE [Return(v, err) EXCEPT !.completed = (err = None)]

\* The invocation goes on with the pass of the next repository itself.
AfterMirrorNextRepo(v, err) ==
  IF err # None
  THEN Return(v, err)
  ELSE IF v.explicit
  THEN Return(v, None)
  ELSE IF NextIndex(v) < Len(v.repos)
  THEN [Return(v, None) EXCEPT !.pc = "auth", !.evt.index = @ + 1,
                               !.cur = v.repos[v.evt.index + 2],
                               !.mirrors = @ + 1]
  ELSE [Return(v, None) EXCEPT !.completed = TRUE]

\* The completion of the sweep is logged one index before the last.
AfterMirrorEarlyCompletion(v, err) ==
  IF err # None
  THEN Return(v, err)
  ELSE IF v.explicit
  THEN Return(v, None)
  ELSE IF NextIndex(v) + 1 < Len(v.repos)
  THEN [Return(v, None) EXCEPT !.pc = "invoke"]
  ELSE [Return(v, None) EXCEPT !.completed = TRUE]

\* handler, lines 65-70 and 84-99: what follows the return of mirrorSingleRepo.
\* An error is returned as it is; after an explicit repo the invocation ends;
\* otherwise the next index is dispatched (pc "invoke") if one remains, else the
\* completion of the sweep is logged.
AfterMirror(v, err) ==
  IF err # None
  THEN Return(v, err)
  ELSE IF v.explicit
  THEN Return(v, None)
  ELSE IF NextIndex(v) < Len(v.repos)
  THEN [Return(v, None) EXCEPT !.pc = "invoke"]
  ELSE [Return(v, None) EXCEPT !.completed = TRUE]

\* MIRROR_DRY_RUN is not looked at.
MirrorEntryNoDryRun(v, e) ==
  LET w == [v EXCEPT !.mirrors = @ + 1, !.dst = dstRepoName(v.cur, e)]
  IN  IF ~e.creds THEN AfterMirror(w, "creds")
      ELSE [w EXCEPT !.pc = "auth"]

\* mirrorSingleRepo, lines 205-216: dry-run returns nil before anything else;
\* missing source credentials are an error; else the first call is the ECR
\* authorization.
MirrorEntry(v, e) ==
  LET w == [v EXCEPT !.mirrors = @ + 1, !.dst = dstRepoName(v.cur, e)]
  IN  IF e.dryRun THEN AfterMirror(w, None)
      ELSE IF ~e.creds THEN AfterMirror(w, "creds")
      ELSE [w EXCEPT !.pc = "auth"]

\* A fresh invocation record.  raw, chain, solo, epoch and the counters are
\* history: the payload received, the trigger the invocation descends from,
\* whether every earlier invocation had ended when it began, the pushes to the
\* source before it began, and the calls it made.
NewInvocation(raw, chain) ==
  [pc |-> "start", raw |-> raw, chain |-> chain, parseErr |-> FALSE,
   evt |-> [index |-> 0, repo |-> Raw(Blank, FALSE)],
   explicit |-> FALSE, loaded |-> FALSE, repos |-> << >>, cur |-> Blank,
   dst |-> dstRepoName(Blank, [dstPrefix |-> "", srcRegistry |-> "cgr.dev"]),
   tags |-> << >>, k |-> 0, srcDigest |-> None, lookup |-> NoLookup,
   err |-> None, killed |-> FALSE, completed |-> FALSE,
   mirrors |-> 0, creates |-> 0, lkFails |-> 0, nw |-> 0, wrote |-> {},
   dispatched |-> {}, solo |-> FALSE, epoch |-> 0]

\* A negative index is rejected like one past the end.
IndexBoundNegNoop(index, repos) ==
  [index |-> index, noop |-> index < 0 \/ index >= Len(repos)]

\* An index at or past the end of the list starts over at 0.
IndexBoundWrap(index, repos) ==
  LET ix == IF index < 0 \/ index >= Len(repos) THEN 0 ELSE index
  IN  [index |-> ix, noop |-> ix >= Len(repos)]

\* handler, lines 72-79: a negative index is taken as 0; an index at or past
\* the end of the list leaves nothing to do.
IndexBound(index, repos) ==
  LET ix == IF index < 0 THEN 0 ELSE index
  IN  [index |-> ix, noop |-> ix >= Len(repos)]

\* handler, lines 44-82, up to the call of mirrorSingleRepo.
handlerEntry(raw, chain, e, ssmOk) ==
  LET p  == parseJobEvent(raw, e)
      l  == loadRepoList(e, ssmOk)
      r  == TrimSpace(p.evt.repo)
      b  == IndexBound(p.evt.index, l.repos)
      v0 == [NewInvocation(raw, chain) EXCEPT !.parseErr = p.err, !.evt = p.evt]
  IN  IF l.err THEN Return(v0, "load")
      ELSE LET v1 == [v0 EXCEPT !.loaded = TRUE, !.repos = l.repos]
           IN  IF Len(l.repos) = 0 THEN Return(v1, None)
               ELSE IF r # Blank
               THEN MirrorEntry([v1 EXCEPT !.explicit = TRUE, !.cur = r], e)
               ELSE IF b.noop
               THEN Return([v1 EXCEPT !.evt.index = b.index], None)
               ELSE MirrorEntry([v1 EXCEPT !.evt.index = b.index,
                                           !.cur = l.repos[b.index + 1]], e)

\* ---------------------------------------------------------------- mirror pass
\* The order in which the source lists its tags.
TagOrder == <<"latest", "v1">>

RECURSIVE ListedTags(_, _)
\* remote.List: the tags the source holds for a repository.
ListedTags(repoTags, order) ==
  IF order = << >> THEN << >>
  ELSE (IF repoTags[Head(order)] # None THEN <<Head(order)>> ELSE << >>)
       \o ListedTags(repoTags, Tail(order))

\* Skip whenever the destination holds the tag, whatever its digest.
SkipDecisionAnyDigest(lookup, srcDigest) ==
  lookup.ok /\ lookup.digest # None

\* Never skip.
SkipDecisionNever(lookup, srcDigest) == FALSE

\* A lookup that failed counts as a tag that is there.
SkipDecisionOnLookupFailure(lookup, srcDigest) ==
  ~lookup.ok \/ (lookup.digest # None /\ lookup.digest = srcDigest)

\* An index is copied whatever the destination holds.
SkipDecisionImagesOnly(lookup, srcDigest) ==
  /\ lookup.ok /\ lookup.digest # None /\ lookup.digest = srcDigest
  /\ ~IsIndex(srcDigest)

\* mirrorSingleRepo, line 331-337: the tag is skipped when the lookup call
\* succeeded, returned an image digest, and that digest is the source digest.
SkipDecision(lookup, srcDigest) ==
  lookup.ok /\ lookup.digest # None /\ lookup.digest = srcDigest

\* ecr.BatchGetImage for one tag: the call fails, or returns the digest the
\* destination records for the tag (None when it records none).
BatchGetImage(name, tag, callOk) ==
  IF ~callOk \/ name \notin dstRepos
  THEN [ok |-> FALSE, digest |-> None]
  ELSE [ok |-> TRUE, digest |-> dstTags[<<name, tag>>].digest]

\* End of one iteration of the tag loop (continue, or the end of the loop
\* body): the next tag, or the return of mirrorSingleRepo after the last one.
NextTag(v) ==
  IF v.k < Len(v.tags)
  THEN [v EXCEPT !.pc = "get", !.k = @ + 1, !.srcDigest = None, !.lookup = NoLookup]
  ELSE AfterMirror(v, None)

\* The error is noted and the loop goes on with the next tag.
TagFailedContinue(v, err) == NextTag([v EXCEPT !.err = err])

\* The tag loop's error returns (lines 320, 343, 347, 352, 356): the pass ends
\* with the error, whatever tags remain.
TagFailed(v, err) == AfterMirror(v, err)

\* mirrorSingleRepo, step 4: every tag the source lists when COPY_ALL_TAGS is
\* true (pc "list"), else the single tag "latest".
SelectTags(v, e) ==
  IF e.copyAll
  THEN [v EXCEPT !.pc = "list"]
  ELSE [v EXCEPT !.pc = "get", !.tags = <<"latest">>, !.k = 1]

Running(i) == i \in 1..Len(inv) /\ inv[i].pc # "done"

Put(i, v) == inv' = [inv EXCEPT ![i] = v]

\* ecr.GetAuthorizationToken (lines 220-244).
Auth(i) ==
  /\ Running(i) /\ inv[i].pc = "auth"
  /\ \E ok \in BOOLEAN :
       Put(i, IF ok THEN [inv[i] EXCEPT !.pc = "describe"]
              ELSE AfterMirror(inv[i], "auth"))
  /\ UNCHANGED <<env, srcReg, dstRepos, dstTags, queue, nSrc, nCfg>>

\* The creation call follows the existence check whatever it found.
DescribeAlwaysCreate(i) ==
  /\ Running(i) /\ inv[i].pc = "describe"
  /\ \E ok \in BOOLEAN :
       Put(i, IF ~ok THEN AfterMirror(inv[i], "describe")
              ELSE [inv[i] EXCEPT !.pc = "create"])
  /\ UNCHANGED <<env, srcReg, dstRepos, dstTags, queue, nSrc, nCfg>>

\* ecr.DescribeRepositories (lines 261-266, 278-280): found, not found (the
\* creation call follows), or another error.
Describe(i) ==
  /\ Running(i) /\ inv[i].pc = "describe"
  /\ \E ok \in BOOLEAN :
       Put(i, IF ~ok THEN AfterMirror(inv[i], "describe")
              ELSE IF inv[i].dst \in dstRepos THEN SelectTags(inv[i], env)
              ELSE [inv[i] EXCEPT !.pc = "create"])
  /\ UNCHANGED <<env, srcReg, dstRepos, dstTags, queue, nSrc, nCfg>>

\* ecr.CreateRepository (lines 267-277): the call fails, or reaches the
\* registry, which creates the repository or reports that it exists already
\* (RepositoryAlreadyExistsException).  Any error of the call (cerr != nil),
\* the latter included, is returned.
Create(i) ==
  /\ Running(i) /\ inv[i].pc = "create"
  /\ \E ok \in BOOLEAN :
       LET v == [inv[i] EXCEPT !.creates = @ + 1]
       IN  IF ok /\ v.dst \notin dstRepos
           THEN /\ dstRepos' = dstRepos \cup {v.dst}
                /\ Put(i, SelectTags(v, env))
           ELSE /\ dstRepos' = dstRepos
                /\ Put(i, AfterMirror(v, IF ok THEN "exists" ELSE "create"))
  /\ UNCHANGED <<env, srcReg, dstTags, queue, nSrc, nCfg>>

\* remote.List (lines 286-298).
List(i) ==
  /\ Running(i) /\ inv[i].pc = "list"
  /\ \E ok \in BOOLEAN :
       LET tags == ListedTags(srcReg[inv[i].cur], TagOrder)
       IN  Put(i, IF ~ok THEN AfterMirror(inv[i], "list")
                  ELSE IF Len(tags) = 0 THEN AfterMirror(inv[i], None)
                  ELSE [inv[i] EXCEPT !.pc = "get", !.tags = tags, !.k = 1])
  /\ UNCHANGED <<env, srcReg, dstRepos, dstTags, queue, nSrc, nCfg>>

\* remote.Get of the current tag (lines 305-322): the call fails (also when
\* the source holds no such tag) or yields the source descriptor.
Get(i) ==
  /\ Running(i) /\ inv[i].pc = "get"
  /\ \E ok \in BOOLEAN :
       LET v == inv[i]
           d == srcReg[v.cur][v.tags[v.k]]
       IN  Put(i, IF ~ok \/ d = None THEN TagFailed(v, "get")
                  ELSE [v EXCEPT !.pc = "lookup", !.srcDigest = d])
  /\ UNCHANGED <<env, srcReg, dstRepos, dstTags, queue, nSrc, nCfg>>

\* ecr.BatchGetImage and the skip decision (lines 325-337).
Lookup(i) ==
  /\ Running(i) /\ inv[i].pc = "lookup"
  /\ \E ok \in BOOLEAN :
       LET lk == BatchGetImage(inv[i].dst, inv[i].tags[inv[i].k], ok)
           v  == [inv[i] EXCEPT !.lookup = lk,
                                !.lkFails = IF lk.ok THEN @ ELSE @ + 1]
       IN  Put(i, IF SkipDecision(lk, v.srcDigest)
                  THEN NextTag(v)
                  ELSE [v EXCEPT !.pc = "transfer"])
  /\ UNCHANGED <<env, srcReg, dstRepos, dstTags, queue, nSrc, nCfg>>

\* An index is flattened to one platform's image, which has its own digest.
WrittenFlattened(v) ==
  [digest |-> IF IsIndex(v.srcDigest) THEN "d1" ELSE v.srcDigest, index |-> FALSE]

\* Every descriptor is written with remote.Write, as a single image.
WrittenAsImage(v) == [digest |-> v.srcDigest, index |-> FALSE]

\* The object remote.Write / remote.WriteIndex leaves under the tag: the
\* manifest of the descriptor fetched by remote.Get, as an index when its
\* media type is an index (lines 340-358).
Written(v) == [digest |-> v.srcDigest, index |-> IsIndex(v.srcDigest)]

\* A write that fails leaves the tag removed.
TransferRemovesOnError(i) ==
  /\ Running(i) /\ inv[i].pc = "transfer"
  /\ \E out \in {"readerr", "writeerr", "ok"} :
       LET v == inv[i]
           w == [v EXCEPT !.nw = @ + 1]
       IN  CASE out = "readerr" ->
                  /\ dstTags' = dstTags
                  /\ Put(i, TagFailed(v, "read"))
             [] out = "writeerr" ->
                  /\ dstTags' = [dstTags EXCEPT ![<<v.dst, v.tags[v.k]>>] =
                                    [digest |-> None, index |-> FALSE]]
                  /\ Put(i, TagFailed(w, "write"))
             [] OTHER ->
                  /\ dstTags' = [dstTags EXCEPT ![<<v.dst, v.tags[v.k]>>] = Written(v)]
                  /\ Put(i, NextTag([w EXCEPT !.wrote = @ \cup {v.tags[v.k]}]))
  /\ UNCHANGED <<env, srcReg, dstRepos, queue, nSrc, nCfg>>

\* desc.ImageIndex()/desc.Image() and remote.WriteIndex/remote.Write (lines
\* 339-358): the read fails, the write fails, or the tag is written.
Transfer(i) ==
  /\ Running(i) /\ inv[i].pc = "transfer"
  /\ \E out \in {"readerr", "writeerr", "ok"} :
       LET v == inv[i]
           w == [v EXCEPT !.nw = @ + 1]
       IN  CASE out = "readerr" ->
                  /\ dstTags' = dstTags
                  /\ Put(i, TagFailed(v, "read"))
             [] out = "writeerr" ->
                  /\ dstTags' = dstTags
                  /\ Put(i, TagFailed(w, "write"))
             [] OTHER ->
                  /\ dstTags' = [dstTags EXCEPT ![<<v.dst, v.tags[v.k]>>] = Written(v)]
                  /\ Put(i, NextTag([w EXCEPT !.wrote = @ \cup {v.tags[v.k]}]))
  /\ UNCHANGED <<env, srcReg, dstRepos, queue, nSrc, nCfg>>

\* ---------------------------------------------------------------- chaining
\* A failed dispatch is not returned as an error.
InvokeSelfSwallow(i) ==
  /\ Running(i) /\ inv[i].pc = "invoke"
  /\ \E ok \in BOOLEAN :
       LET v    == inv[i]
           next == NextIndex(v)
       IN  IF ok /\ env.fnName
           THEN /\ queue' = queue \cup {[index |-> next, chain |-> v.chain]}
                /\ Put(i, [Return(v, None) EXCEPT !.dispatched = @ \cup {next}])
           ELSE /\ queue' = queue
                /\ Put(i, Return(v, None))
  /\ UNCHANGED <<env, srcReg, dstRepos, dstTags, nSrc, nCfg>>

\* invokeSelfAsync (lines 367-390) and the handler's return after it (lines
\* 91-94, 99): the payload {index: next} is handed to Lambda, or the call (or
\* the missing function name) is an error.
InvokeSelf(i) ==
  /\ Running(i) /\ inv[i].pc = "invoke"
  /\ \E ok \in BOOLEAN :
       LET v    == inv[i]
           next == NextIndex(v)
       IN  IF ok /\ env.fnName
           THEN /\ queue' = queue \cup {[index |-> next, chain |-> v.chain]}
                /\ Put(i, [Return(v, None) EXCEPT !.dispatched = @ \cup {next}])
           ELSE /\ queue' = queue
                /\ Put(i, Return(v, "invoke"))
  /\ UNCHANGED <<env, srcReg, dstRepos, dstTags, nSrc, nCfg>>

\* json.Marshal(JobEvent{Index: n}): the payload of a continuation.
Marshal(n) == [kind |-> "json", index |-> n, repo |-> Raw(Blank, FALSE)]

Idle == \A j \in 1..Len(inv) : inv[j].pc = "done"

\* lambda.Start(handler): an invocation begins with the payload it was given.
Start(raw, chain, ssmOk) ==
  LET v == handlerEntry(raw, chain, env, ssmOk)
  IN  inv' = Append(inv, [v EXCEPT !.solo = Idle, !.epoch = nSrc])

\* An external trigger (schedule, manual invoke) starts an invocation.
Trigger(raw, cap) ==
  /\ Len(inv) < cap
  /\ \E ssmOk \in BOOLEAN : Start(raw, Len(inv) + 1, ssmOk)
  /\ UNCHANGED <<env, srcReg, dstRepos, dstTags, queue, nSrc, nCfg>>

\* Lambda delivers a dispatched continuation to a fresh invocation.
Deliver ==
  /\ \E job \in queue :
       /\ queue' = queue \ {job}
       /\ \E ssmOk \in BOOLEAN : Start(Marshal(job.index), job.chain, ssmOk)
  /\ UNCHANGED <<env, srcReg, dstRepos, dstTags, nSrc, nCfg>>

\* The host ends an invocation at its deadline, wherever it is.
Timeout(i) ==
  /\ Running(i)
  /\ Put(i, [Return(inv[i], None) EXCEPT !.killed = TRUE])
  /\ UNCHANGED <<env, srcReg, dstRepos, dstTags, queue, nSrc, nCfg>>

\* ---------------------------------------------------------------- environment
\* The digest a later push gives a tag.
NewDigest == "d3"

\* Someone pushes a new image under a tag of a source repository.
SourcePush(r, t) ==
  /\ nSrc < MaxSrcChanges
  /\ srcReg[r][t] # NewDigest
  /\ srcReg' = [srcReg EXCEPT ![r][t] = NewDigest]
  /\ nSrc' = nSrc + 1
  /\ UNCHANGED <<env, dstRepos, dstTags, inv, queue, nCfg>>

JsonList(items) == [kind |-> "list", items |-> items]
Unset == [kind |-> "unset", items |-> << >>]
Invalid == [kind |-> "invalid", items |-> << >>]

\* The list Repo(1), ..., Repo(n) as configured entries.
RepoEntries(n) == [k \in 1..n |-> Raw(Repo(k), FALSE)]

\* The configured list (REPO_LIST_JSON) is replaced.
ChangeRepoList(items) ==
  /\ nCfg < MaxListChanges
  /\ env.listJson # JsonList(items)
  /\ env' = [env EXCEPT !.listJson = JsonList(items)]
  /\ nCfg' = nCfg + 1
  /\ UNCHANGED <<srcReg, dstRepos, dstTags, inv, queue, nSrc>>

\* ---------------------------------------------------------------- initial states
\* REPO_TAGS_JSON, the per-repository tag sets the deployment passes to the
\* function: none configured.
NoRepoTags == [r \in RepoIds |-> << >>]

EnvBase ==
  [listJson |-> Unset, listCsv |-> Unset, ssmParam |-> FALSE, ssmValue |-> Unset,
   startIndex |-> [kind |-> "unset", val |-> 0],
   dryRun |-> FALSE, copyAll |-> FALSE, creds |-> TRUE, fnName |-> TRUE,
   dstPrefix |-> "", srcRegistry |-> "cgr.dev", repoTags |-> NoRepoTags]

\* A source repository's tags, "latest" and "v1".
SrcTags(l, o) == [t \in Tags |-> IF t = "latest" THEN l ELSE o]

NoEntry == [digest |-> None, index |-> FALSE]
EmptyTags == [x \in DstNames \X Tags |-> NoEntry]

\* The destination is empty, or already holds the first repository with an
\* older image under "latest".
DstInits ==
  {[repos |-> {}, tags |-> EmptyTags],
   [repos |-> {dstRepoName(Repo(1), EnvBase)},
    tags  |-> [EmptyTags EXCEPT ![<<dstRepoName(Repo(1), EnvBase), "latest">>] =
                 [digest |-> StaleDigest, index |-> FALSE]]]}

InitRun ==
  /\ \E d \in DstInits : dstRepos = d.repos /\ dstTags = d.tags
  /\ inv = << >> /\ queue = {} /\ nSrc = 0 /\ nCfg = 0

Explicit(r) == [kind |-> "json", index |-> 0, repo |-> Raw(r, FALSE)]

\* ---------------------------------------------------------------- Spec
\* Overlapping mirror passes of one repository, each triggered with the
\* repository named in the payload, and pushes to the source meanwhile.  The
\* tag policy is the default: "latest" only.
Init ==
  /\ env = [EnvBase EXCEPT !.listJson = JsonList(RepoEntries(1))]
  /\ \E l \in {"d1", "d2"} : srcReg = [r \in RepoIds |-> SrcTags(l, None)]
  /\ InitRun

Next ==
  \/ Trigger(Explicit(Repo(1)), MaxInv)
  \/ \E i \in 1..Len(inv) : Auth(i)
  \/ \E i \in 1..Len(inv) : Describe(i)
  \/ \E i \in 1..Len(inv) : Create(i)
  \/ \E i \in 1..Len(inv) : Get(i)
  \/ \E i \in 1..Len(inv) : Lookup(i)
  \/ \E i \in 1..Len(inv) : Transfer(i)
  \/ SourcePush(Repo(1), "latest")

Spec == Init /\ [][Next]_vars

\* ---------------------------------------------------------------- SpecSeq
\* Mirror passes of one repository run one after the other (a trigger waits
\* for the invocations before it to end), over one or all tags, with pushes to
\* the source.
InitSeq ==
  /\ \E c \in BOOLEAN :
       env = [EnvBase EXCEPT !.listJson = JsonList(RepoEntries(1)), !.copyAll = c]
  /\ \E l \in {"d1", "d2"}, o \in {"d1", None} :
       srcReg = [r \in RepoIds |-> SrcTags(l, o)]
  /\ InitRun

NextSeq ==
  \/ Idle /\ Trigger(Explicit(Repo(1)), MaxRuns)
  \/ \E i \in 1..Len(inv) : Auth(i)
  \/ \E i \in 1..Len(inv) : Describe(i)
  \/ \E i \in 1..Len(inv) : Create(i)
  \/ \E i \in 1..Len(inv) : List(i)
  \/ \E i \in 1..Len(inv) : Get(i)
  \/ \E i \in 1..Len(inv) : Lookup(i)
  \/ \E i \in 1..Len(inv) : Transfer(i)
  \/ \E t \in Tags : SourcePush(Repo(1), t)

SpecSeq == InitSeq /\ [][NextSeq]_vars

\* ---------------------------------------------------------------- SpecChain
\* One external trigger and the chain of continuations it starts, under the
\* configurations of the repository list, with the list replaced meanwhile.
\* The registries are as small as a pass needs: "latest" only.
ListEnv(n) == [EnvBase EXCEPT !.listJson = JsonList(RepoEntries(n))]

\* Entries with surrounding whitespace and blank entries, as delimited text
\* gives them.
PaddedEntries == <<Raw(Blank, TRUE), Raw(Repo(1), TRUE), Raw(Blank, FALSE), Raw(Repo(2), FALSE)>>

\* The list of two repositories with a third one put in front of them.
PrependedEntries == <<Raw(Repo(3), FALSE), Raw(Repo(1), FALSE), Raw(Repo(2), FALSE)>>

\* A list that names its first repository a second time, with whitespace.
RepeatedEntries == <<Raw(Repo(1), FALSE), Raw(Repo(2), FALSE), Raw(Repo(1), TRUE)>>

ChainEnvs ==
  {ListEnv(n) : n \in 0..MaxList}
  \cup {EnvBase,
        [EnvBase EXCEPT !.listJson = Invalid, !.listCsv = JsonList(PaddedEntries)],
        [EnvBase EXCEPT !.ssmParam = TRUE, !.ssmValue = JsonList(RepoEntries(2))],
        [EnvBase EXCEPT !.ssmParam = TRUE],
        [ListEnv(MaxList) EXCEPT !.startIndex = [kind |-> "int", val |-> 1]],
        [ListEnv(MaxList) EXCEPT !.startIndex = [kind |-> "nan", val |-> 0]],
        [ListEnv(MaxList) EXCEPT !.dryRun = TRUE],
        [ListEnv(2) EXCEPT !.fnName = FALSE],
        [ListEnv(2) EXCEPT !.creds = FALSE],
        [ListEnv(2) EXCEPT !.dstPrefix = "mirror"],
        [ListEnv(2) EXCEPT !.dryRun = TRUE, !.creds = FALSE],
        [EnvBase EXCEPT !.listJson = JsonList(RepeatedEntries)],
        [ListEnv(2) EXCEPT !.repoTags = [NoRepoTags EXCEPT ![Repo(1)] = <<"v1">>]]}

InitChain ==
  /\ env \in ChainEnvs
  /\ srcReg = [r \in RepoIds |->
                 SrcTags(IF r = Repo(2) THEN "d2" ELSE "d1", None)]
  /\ dstRepos = {} /\ dstTags = EmptyTags
  /\ inv = << >> /\ queue = {} /\ nSrc = 0 /\ nCfg = 0

\* The payload '{}'.
EmptyObject == [kind |-> "object", index |-> 0, repo |-> Raw(Blank, FALSE)]

\* The payloads of the trigger: none, malformed, an index from below 0 to the
\* longest list's length, an explicit repository (in the list or not, with any
\* index), a whitespace-only repo, the empty object.
ChainPayloads ==
  {[kind |-> "empty", index |-> 0, repo |-> Raw(Blank, FALSE)],
   [kind |-> "invalid", index |-> 0, repo |-> Raw(Blank, FALSE)]}
  \cup {[kind |-> "json", index |-> n, repo |-> Raw(Blank, FALSE)] : n \in -2..MaxList}
  \cup {[kind |-> "json", index |-> n, repo |-> Raw(r, TRUE)] :
          n \in {0, 1}, r \in {Repo(1), NoHostRepo(1)}}
  \cup {[kind |-> "json", index |-> 1, repo |-> Raw(Blank, TRUE)], EmptyObject}

NextChain ==
  \/ \E raw \in ChainPayloads : Trigger(raw, 1)
  \/ Deliver
  \/ \E i \in 1..Len(inv) : Auth(i)
  \/ \E i \in 1..Len(inv) : Describe(i)
  \/ \E i \in 1..Len(inv) : Create(i)
  \/ \E i \in 1..Len(inv) : Get(i)
  \/ \E i \in 1..Len(inv) : Lookup(i)
  \/ \E i \in 1..Len(inv) : Transfer(i)
  \/ \E i \in 1..Len(inv) : InvokeSelf(i)
  \/ \E n \in 0..MaxList : ChangeRepoList(RepoEntries(n))
  \/ ChangeRepoList(PrependedEntries)

SpecChain == InitChain /\ [][NextChain]_vars

\* ---------------------------------------------------------------- SpecAbort
\* Sweeps over two repositories triggered at index 0 one after the other, all
\* tags copied, where the host may end an invocation at its deadline; the
\* continuations dispatched stay in the queue.
InitAbort ==
  /\ env = [ListEnv(2) EXCEPT !.copyAll = TRUE]
  /\ \E l \in {"d1", "d2"} : srcReg = [r \in RepoIds |-> SrcTags(l, "d1")]
  /\ InitRun

NextAbort ==
  \/ Idle /\ Trigger(Marshal(0), MaxRuns)
  \/ \E i \in 1..Len(inv) : Auth(i)
  \/ \E i \in 1..Len(inv) : Describe(i)
  \/ \E i \in 1..Len(inv) : Create(i)
  \/ \E i \in 1..Len(inv) : List(i)
  \/ \E i \in 1..Len(inv) : Get(i)
  \/ \E i \in 1..Len(inv) : Lookup(i)
  \/ \E i \in 1..Len(inv) : Transfer(i)
  \/ \E i \in 1..Len(inv) : InvokeSelf(i)
  \/ \E i \in 1..Len(inv) : Timeout(i)
  \/ SourcePush(Repo(1), "latest")

SpecAbort == InitAbort /\ [][NextAbort]_vars

\* ---------------------------------------------------------------- full sync
\* The full-sync Lambda (cmd/fullsync/main.go): one invocation goes through
\* every repository of the group and every tag of each.

\* crane.Catalog: the repository paths the source registry holds; those under
\* "<GROUP_NAME>/" are the first two.
Catalog == <<1, 2, 3>>
InGroup(n) == n <= 2

\* handler, lines 182-185: the destination repository of a repository path.
FsDstRepo(repoPath, e) == [prefix |-> e.dstPrefix, host |-> "", path |-> repoPath]

FsNoLookup == [err |-> FALSE, exists |-> FALSE, digest |-> None]

\* A fresh full-sync invocation, at the catalog call.  srcDigest None is the
\* empty string crane.Digest leaves on an error; copies and lkErrs count the
\* calls of crane.Copy and the lookups that returned an error.
FsInvocation ==
  [pc |-> "fsCatalog", matched |-> << >>, r |-> 0, tags |-> << >>, k |-> 0,
   srcDigest |-> None, lookup |-> FsNoLookup, copies |-> 0, lkErrs |-> 0,
   err |-> None]

FsSrc(v) == Repo(v.matched[v.r])
FsDst(v) == FsDstRepo(v.matched[v.r], env)

\* handler, line 169: the next repository of the loop, or the return of "ok".
FsNextRepo(v) ==
  LET w == [v EXCEPT !.tags = << >>, !.k = 0, !.srcDigest = None,
                     !.lookup = FsNoLookup]
  IN  IF v.r < Len(v.matched)
      THEN [w EXCEPT !.pc = "fsListTags", !.r = @ + 1]
      ELSE [w EXCEPT !.pc = "done", !.r = 0]

\* handler, line 192: the next tag of the loop, or the next repository.
FsNextTag(v) ==
  IF v.k < Len(v.tags)
  THEN [v EXCEPT !.pc = "fsDigest", !.k = @ + 1, !.srcDigest = None,
                 !.lookup = FsNoLookup]
  ELSE FsNextRepo(v)

\* Skip whenever the tag is found, whatever its digest.
FsSkipIfFound(lookup, srcDigest) == ~lookup.err /\ lookup.exists

\* handler, lines 203-208: the tag is skipped when the lookup returned no
\* error, the tag exists, the source digest is known and the two are equal.
FsSkipDecision(lookup, srcDigest) ==
  /\ ~lookup.err /\ lookup.exists
  /\ srcDigest # None /\ lookup.digest = srcDigest

\* ecrTagDigest (lines 97-113): DescribeImages fails, or the repository or the
\* tag is not there, or the tag's digest is returned.
ecrTagDigest(repo, tag, callOk) ==
  IF ~callOk THEN [err |-> TRUE, exists |-> FALSE, digest |-> None]
  ELSE IF repo \notin dstRepos \/ dstTags[<<repo, tag>>].digest = None
  THEN FsNoLookup
  ELSE [err |-> FALSE, exists |-> TRUE, digest |-> dstTags[<<repo, tag>>].digest]

\* lambda.Start(handler) and lines 118-153: configuration, AWS identity and
\* ECR authorization; a failure returns the error.
FsStart ==
  /\ Idle /\ Len(inv) < MaxRuns
  /\ \E ok \in BOOLEAN :
       inv' = Append(inv, IF ok THEN FsInvocation
                          ELSE [FsInvocation EXCEPT !.pc = "done", !.err = "setup"])
  /\ UNCHANGED <<env, srcReg, dstRepos, dstTags, queue, nSrc, nCfg>>

\* crane.Catalog and the group filter (lines 156-167).
FsCatalog(i) ==
  /\ Running(i) /\ inv[i].pc = "fsCatalog"
  /\ \E ok \in BOOLEAN :
       Put(i, IF ok
              THEN FsNextRepo([inv[i] EXCEPT !.matched = SelectSeq(Catalog, InGroup)])
              ELSE [inv[i] EXCEPT !.pc = "done", !.err = "catalog"])
  /\ UNCHANGED <<env, srcReg, dstRepos, dstTags, queue, nSrc, nCfg>>

\* crane.ListTags (lines 171-179): an error or no tag skips the repository.
FsListTags(i) ==
  /\ Running(i) /\ inv[i].pc = "fsListTags"
  /\ \E ok \in BOOLEAN :
       LET tags == ListedTags(srcReg[FsSrc(inv[i])], TagOrder)
       IN  Put(i, IF ~ok \/ Len(tags) = 0 THEN FsNextRepo(inv[i])
                  ELSE [inv[i] EXCEPT !.pc = "fsDescribe", !.tags = tags])
  /\ UNCHANGED <<env, srcReg, dstRepos, dstTags, queue, nSrc, nCfg>>

\* ensureECRRepo, lines 37-42: DescribeRepositories without an error ends it;
\* any error leads to the creation call.
FsDescribe(i) ==
  /\ Running(i) /\ inv[i].pc = "fsDescribe"
  /\ \E ok \in BOOLEAN :
       Put(i, IF ok /\ FsDst(inv[i]) \in dstRepos THEN FsNextTag(inv[i])
              ELSE [inv[i] EXCEPT !.pc = "fsCreate"])
  /\ UNCHANGED <<env, srcReg, dstRepos, dstTags, queue, nSrc, nCfg>>

\* ensureECRRepo, lines 43-52, and handler, lines 187-190: the repository is
\* created, or exists already (no error for ensureECRRepo), or the call
\* fails and the repository is skipped.
FsCreate(i) ==
  /\ Running(i) /\ inv[i].pc = "fsCreate"
  /\ \E ok \in BOOLEAN :
       IF ok
       THEN /\ dstRepos' = dstRepos \cup {FsDst(inv[i])}
            /\ Put(i, FsNextTag(inv[i]))
       ELSE /\ dstRepos' = dstRepos
            /\ Put(i, FsNextRepo(inv[i]))
  /\ UNCHANGED <<env, srcReg, dstTags, queue, nSrc, nCfg>>

\* crane.Digest of the source tag (lines 196-201): an error is logged and
\* leaves the digest empty.
FsDigest(i) ==
  /\ Running(i) /\ inv[i].pc = "fsDigest"
  /\ \E ok \in BOOLEAN :
       LET v == inv[i]
       IN  Put(i, [v EXCEPT !.pc = "fsLookup",
                     !.srcDigest = IF ok THEN srcReg[FsSrc(v)][v.tags[v.k]] ELSE None])
  /\ UNCHANGED <<env, srcReg, dstRepos, dstTags, queue, nSrc, nCfg>>

\* ecrTagDigest and the skip decision (lines 203-208).
FsLookup(i) ==
  /\ Running(i) /\ inv[i].pc = "fsLookup"
  /\ \E ok \in BOOLEAN :
       LET lk == ecrTagDigest(FsDst(inv[i]), inv[i].tags[inv[i].k], ok)
           v  == [inv[i] EXCEPT !.lookup = lk,
                                !.lkErrs = IF lk.err THEN @ + 1 ELSE @]
       IN  Put(i, IF FsSkipDecision(lk, v.srcDigest)
                  THEN FsNextTag(v)
                  ELSE [v EXCEPT !.pc = "fsCopy"])
  /\ UNCHANGED <<env, srcReg, dstRepos, dstTags, queue, nSrc, nCfg>>

\* copyImage / crane.Copy (lines 85-93, 210-213): the tag is copied as the
\* source holds it at that moment, or the error is logged; the loop goes on.
FsCopy(i) ==
  /\ Running(i) /\ inv[i].pc = "fsCopy"
  /\ \E ok \in BOOLEAN :
       LET v == [inv[i] EXCEPT !.copies = @ + 1]
           d == srcReg[FsSrc(v)][v.tags[v.k]]
       IN  /\ dstTags' = IF ok /\ FsDst(v) \in dstRepos
                         THEN [dstTags EXCEPT ![<<FsDst(v), v.tags[v.k]>>] =
                                 [digest |-> d, index |-> IsIndex(d)]]
                         ELSE dstTags
           /\ Put(i, FsNextTag(v))
  /\ UNCHANGED <<env, srcReg, dstRepos, queue, nSrc, nCfg>>

\* ---------------------------------------------------------------- SpecFull
\* Full-sync invocations run one after the other over a group of two
\* repositories, the second with one tag or none, with a push to the source.
InitFull ==
  /\ env = EnvBase
  /\ \E l \in {"d1", "d2"}, o \in {"d1", None}, m \in {"d1", None} :
       srcReg = [r \in RepoIds |-> IF r = Repo(1) THEN SrcTags(l, o)
                                   ELSE SrcTags(m, None)]
  /\ InitRun

NextFull ==
  \/ FsStart
  \/ \E i \in 1..Len(inv) : FsCatalog(i)
  \/ \E i \in 1..Len(inv) : FsListTags(i)
  \/ \E i \in 1..Len(inv) : FsDescribe(i)
  \/ \E i \in 1..Len(inv) : FsCreate(i)
  \/ \E i \in 1..Len(inv) : FsDigest(i)
  \/ \E i \in 1..Len(inv) : FsLookup(i)
  \/ \E i \in 1..Len(inv) : FsCopy(i)
  \/ SourcePush(Repo(1), "latest")

SpecFull == InitFull /\ [][NextFull]_vars

\* ================================================================ claims
\* Steps of invocation i, as seen from the states before and after.
Started == 1..Len(inv)
CurTag(i) == inv[i].tags[inv[i].k]
DstDigest(i) == dstTags[<<inv[i].dst, CurTag(i)>>].digest
LookupStep(i) == inv[i].pc = "lookup" /\ inv'[i] # inv[i]
TransferStep(i) == inv[i].pc = "transfer" /\ inv'[i] # inv[i]
WriteIssued(i) == inv[i].pc = "transfer" /\ inv'[i].nw = inv[i].nw + 1

\* The lookup step of i left the tag alone: the loop went on to the next tag or
\* the pass returned, without entering the copy.
SkippedBy(i) == inv'[i].pc # "transfer"

\* The lookup call of the step succeeded and the digest the destination
\* records for the tag is the digest of the source descriptor.
LookupEqual(i) ==
  /\ inv'[i].lkFails = inv[i].lkFails
  /\ DstDigest(i) = inv[i].srcDigest

SkipIffEqual ==
  \A i \in Started : LookupStep(i) => (SkippedBy(i) <=> LookupEqual(i))

\* C1 (as stated): every tag is skipped iff the lookup succeeded with the
\* source's digest, and in every other case a write to the destination is
\* attempted.
C1_Original ==
  [][/\ SkipIffEqual
     /\ \A i \in Started : TransferStep(i) => inv'[i].nw = inv[i].nw + 1]_vars

\* C1 (amended): every tag is skipped iff the lookup succeeded with the
\* source's digest; in every other case the copy is entered, and a write to the
\* destination is attempted unless reading the source image or index fails.
C1_SkipIffEqual ==
  [][/\ SkipIffEqual
     /\ \A i \in Started :
          TransferStep(i) => \/ inv'[i].nw = inv[i].nw + 1
                             \/ inv'[i].err = "read"]_vars

\* A lookup that failed although the destination holds the source's digest:
\* the copy is entered.
C1_Witness ==
  \E i \in Started :
    /\ inv[i].pc = "transfer" /\ ~inv[i].lookup.ok
    /\ DstDigest(i) = inv[i].srcDigest

\* C2 (as stated): no write is issued to a destination tag at a moment when the
\* destination's digest for the tag equals the source's current digest.
C2_Original ==
  [][\A i \in Started :
       WriteIssued(i) => DstDigest(i) # srcReg[inv[i].cur][CurTag(i)]]_vars

\* C2 (amended): a write is issued to a destination tag whose digest equals the
\* source's current digest only if the writer's lookup of the tag failed, or
\* the destination's or the source's digest for the tag changed after the
\* writer read it.
C2_NoRewriteUnlessStale ==
  [][\A i \in Started :
       (WriteIssued(i) /\ DstDigest(i) = srcReg[inv[i].cur][CurTag(i)])
         => \/ ~inv[i].lookup.ok
            \/ inv[i].lookup.digest # DstDigest(i)
            \/ inv[i].srcDigest # srcReg[inv[i].cur][CurTag(i)]]_vars

\* An invocation about to write a tag that an overlapping invocation brought
\* to the source's digest after this one's lookup.
C2_Witness ==
  \E i \in Started :
    /\ inv[i].pc = "transfer" /\ inv[i].lookup.ok
    /\ inv[i].lookup.digest # DstDigest(i)
    /\ DstDigest(i) = srcReg[inv[i].cur][CurTag(i)]
    /\ inv[i].srcDigest = DstDigest(i)

\* Invocations i and i+1 are two passes over the same repository in
\* succession: the first returned nil, the second began after every earlier
\* invocation had ended, and the source has not been pushed to since the first
\* began.
Succession(i) ==
  /\ i + 1 \in Started
  /\ inv[i].pc = "done" /\ inv[i].err = None /\ ~inv[i].killed /\ inv[i].mirrors = 1
  /\ inv[i].solo /\ inv[i + 1].solo
  /\ inv[i + 1].mirrors = 1 /\ inv[i + 1].cur = inv[i].cur
  /\ inv[i].epoch = nSrc

\* C3 (as stated): the second of two passes in succession over an unchanged
\* source performs no destination write.
C3_Original ==
  \A i \in Started : Succession(i) => inv[i + 1].nw = 0

\* C3 (amended): the second of two passes in succession over an unchanged
\* source performs no destination write, provided none of its digest lookups
\* fails.
C3_SecondRunSkips ==
  \A i \in Started :
    (Succession(i) /\ inv[i + 1].lkFails = 0) => inv[i + 1].nw = 0

\* A first pass that wrote both tags and a second one that returned nil
\* without a write.
C3_Witness ==
  \E i \in Started :
    /\ Succession(i) /\ inv[i].nw = 2
    /\ inv[i + 1].pc = "done" /\ inv[i + 1].err = None
    /\ inv[i + 1].lkFails = 0 /\ inv[i + 1].nw = 0

\* C10: a failure of the fetch, the read or the write of a tag ends the pass at
\* once with the error: the failing step leaves the destination as it is, and
\* the invocation does nothing afterwards.
C10_FailFast ==
  [][\A i \in Started :
       inv'[i].err \in TagErrors =>
         /\ inv'[i].pc = "done"
         /\ inv[i].err = None => (dstTags' = dstTags /\ dstRepos' = dstRepos)
         /\ inv[i].err # None => inv'[i] = inv[i]]_vars

\* The write of the second tag failed; the first tag stays as written.
C10_Witness ==
  \E i \in Started :
    /\ inv[i].err = "write" /\ inv[i].nw = 2
    /\ dstTags[<<inv[i].dst, "latest">>].digest = srcReg[inv[i].cur]["latest"]
    /\ dstTags[<<inv[i].dst, "v1">>].digest = None

\* ---------------------------------------------------------------- the chain
\* The invocations of the chain that trigger c started.
ChainOf(c) == {i \in Started : inv[i].chain = c}

\* The payload names a repository (a non-blank repo).
HasRepo(raw) == raw.kind = "json" /\ TrimSpace(raw.repo) # Blank

\* Trigger c started a chain at index 0 over a list of n >= 1 repositories
\* that every invocation of the chain resolved alike, and nothing in it failed
\* so far.
CleanChain(c, n) ==
  /\ c \in Started /\ inv[c].chain = c
  /\ ~HasRepo(inv[c].raw) /\ inv[c].loaded /\ inv[c].evt.index = 0
  /\ n = Len(inv[c].repos) /\ n >= 1
  /\ \A i \in ChainOf(c) :
       /\ inv[i].loaded /\ inv[i].repos = inv[c].repos
       /\ inv[i].err = None /\ ~inv[i].killed

Quiet(c) ==
  /\ \A i \in ChainOf(c) : inv[i].pc = "done"
  /\ \A job \in queue : job.chain # c

\* C4: a chain started at index 0 over a list of n repositories, resolved alike
\* by all its invocations and without a failure, never has more than n
\* invocations; the one that logs the completion of the sweep is the n-th and
\* last and dispatches nothing; and when the chain has come to rest it
\* consists of exactly n invocations, each but the last having dispatched one
\* continuation.
C4_ChainLength ==
  \A c \in Started : \A n \in 1..MaxList :
    CleanChain(c, n) =>
      /\ Cardinality(ChainOf(c)) <= n
      /\ \A i \in ChainOf(c) :
           inv[i].completed =>
             /\ Cardinality(ChainOf(c)) = n /\ inv[i].evt.index = n - 1
             /\ inv[i].dispatched = {} /\ Quiet(c)
      /\ Quiet(c) =>
           /\ Cardinality(ChainOf(c)) = n
           /\ \E i \in ChainOf(c) : inv[i].completed
           /\ \A i \in ChainOf(c) :
                ~inv[i].completed => Cardinality(inv[i].dispatched) = 1

\* A chain over three repositories at rest after its third invocation.
C4_Witness ==
  /\ CleanChain(1, 3) /\ Quiet(1)
  /\ Len(inv) = 3 /\ inv[3].completed /\ inv[3].mirrors = 1

\* C5: a continuation carries the index after the one its dispatcher
\* processed, below the length of the list the dispatcher resolved.
C5_NextIndex ==
  /\ \A i \in Started : \A n \in inv[i].dispatched :
       /\ n = inv[i].evt.index + 1
       /\ n < Len(inv[i].repos)
       /\ inv[i].evt.index >= 0
  /\ \A job \in queue : \E i \in Started : job.index \in inv[i].dispatched

\* The second invocation of a chain has dispatched index 2.
C5_Witness ==
  \E i \in Started : inv[i].evt.index = 1 /\ inv[i].dispatched = {2}

IndexPayload(n) == [kind |-> "json", index |-> n, repo |-> Raw(Blank, FALSE)]

\* C6: over a non-empty list, a negative index enters the handler exactly as
\* index 0 does (the same repository to mirror, the same index to continue
\* from), and runs so; an index at or past the end of the list makes no
\* mirror call, dispatches nothing and returns nil.
C6_IndexClamp ==
  /\ \A n \in {-2, -1} : \A ok \in BOOLEAN :
       LET a == handlerEntry(IndexPayload(n), 1, env, ok)
           b == handlerEntry(IndexPayload(0), 1, env, ok)
       IN  (b.loaded /\ Len(b.repos) > 0) => [a EXCEPT !.raw = b.raw] = b
  /\ \A i \in Started :
       (inv[i].raw.kind = "json" /\ ~HasRepo(inv[i].raw)
          /\ inv[i].loaded /\ Len(inv[i].repos) > 0) =>
         /\ inv[i].raw.index < 0 =>
              /\ inv[i].evt.index = 0
              /\ inv[i].mirrors = 1 /\ inv[i].cur = inv[i].repos[1]
              /\ inv[i].dispatched \subseteq {1}
         /\ inv[i].raw.index >= Len(inv[i].repos) =>
              /\ inv[i].pc = "done" /\ inv[i].err = None
              /\ inv[i].mirrors = 0 /\ inv[i].dispatched = {}

\* An invocation given index -2 has mirrored the first repository and
\* dispatched index 1, and one given the list's length has returned.
C6_Witness ==
  \/ \E i \in Started :
       /\ inv[i].raw.kind = "json" /\ inv[i].raw.index = -2 /\ inv[i].mirrors = 1
       /\ inv[i].cur = Repo(1) /\ inv[i].dispatched = {1}

\* C7: an invocation whose payload names a repository dispatches no
\* continuation.
C7_ExplicitNoChain ==
  \A i \in Started :
    HasRepo(inv[i].raw) =>
      /\ inv[i].dispatched = {} /\ inv[i].pc # "invoke"
      /\ \A job \in queue : job.chain # inv[i].chain
      /\ ChainOf(inv[i].chain) = {i}

\* An explicit-repo invocation returned nil after its pass, with an index
\* that has a successor in the list.
C7_Witness ==
  \E i \in Started :
    /\ HasRepo(inv[i].raw) /\ inv[i].pc = "done" /\ inv[i].err = None
    /\ inv[i].mirrors = 1 /\ inv[i].raw.index + 1 < Len(inv[i].repos)

\* C8 (as stated): an invocation whose payload names a repository runs the
\* Mirror Orchestrator exactly once on it before it ends, whatever the list.
C8_ExplicitAlwaysMirrors ==
  \A i \in Started :
    (HasRepo(inv[i].raw) /\ inv[i].pc = "done") =>
      inv[i].mirrors = 1 /\ inv[i].cur = TrimSpace(inv[i].raw.repo)

\* C9: an invocation whose mirror pass failed has returned that error and
\* dispatched nothing, and it is the last of its chain: nothing of the chain is
\* queued and no later invocation belongs to it.
C9_StallOnError ==
  \A i \in Started :
    inv[i].err \in MirrorErrors =>
      /\ inv[i].pc = "done" /\ inv[i].dispatched = {} /\ ~inv[i].completed
      /\ \A job \in queue : job.chain # inv[i].chain
      /\ \A j \in ChainOf(inv[i].chain) : j <= i

\* The second invocation of a chain failed in its pass with repositories left.
C9_Witness ==
  \E i \in Started :
    /\ i >= 2 /\ inv[i].err = "write" /\ ~inv[i].explicit
    /\ inv[i].evt.index + 1 < Len(inv[i].repos)

\* ---------------------------------------------------------------- the repository
\* C11 (as stated): a creation call that reports that the repository exists
\* already is taken as success, so no pass ever returns that report as its
\* error.
C11_AlreadyExistsIsSuccess ==
  \A i \in Started : inv[i].err # "exists"

\* The positions of a pass in its tag processing.
TagPcs == {"list", "get", "lookup", "transfer"}

\* Pass i made a creation call that created the repository.
Created(i) == inv[i].creates = 1 /\ inv[i].err \notin {"create", "exists"}

\* C12: in passes run one after the other, the existence check that finds the
\* repository absent is followed by the creation call and by nothing else; the
\* creation call is the pass's only one and is made before any tag is listed,
\* fetched, looked up or written; tag processing makes no creation call and
\* finds the repository there; and a pass later than one that created the
\* repository makes no creation call.
C12_OneCreation ==
  [][/\ \A i \in Started :
          /\ (inv[i].pc = "describe" /\ inv'[i] # inv[i] /\ inv'[i].err # "describe")
               => (inv'[i].pc = "create" <=> inv[i].dst \notin dstRepos)
          /\ inv[i].pc = "create" =>
               /\ inv[i].creates = 0 /\ inv[i].dst \notin dstRepos
               /\ inv[i].tags = << >> /\ inv[i].k = 0 /\ inv[i].srcDigest = None
               /\ inv[i].lkFails = 0 /\ inv[i].nw = 0
               /\ inv'[i] # inv[i] =>
                    /\ inv'[i].creates = 1
                    /\ inv'[i].pc \in TagPcs \cup {"done"}
          /\ inv[i].pc # "create" => inv'[i].creates = inv[i].creates
          /\ inv[i].pc \in TagPcs =>
               inv[i].dst \in dstRepos /\ inv'[i].pc \in TagPcs \cup {"done"}
     /\ \A i \in 1..Len(inv') : \A j \in 1..Len(inv') :
          (i < j /\ Created(i)') => inv'[j].creates = 0]_vars

\* A pass created the repository and mirrored into it, and a later pass has
\* gone through its tags without a creation call.
C12_Witness ==
  \E i \in Started : \E j \in Started :
    /\ i < j /\ Created(i) /\ inv[i].nw > 0 /\ inv[i].pc = "done"
    /\ inv[j].pc = "done" /\ inv[j].err = None /\ inv[j].mirrors = 1
    /\ inv[j].creates = 0

\* ---------------------------------------------------------------- dry run
\* C13: with dry-run enabled no invocation is ever at a network call of the
\* mirror pass (authorization, existence check, creation, listing, fetch,
\* lookup, copy), none makes a creation call, a lookup or a write, the
\* destination registry stays as it was, and no pass returns an error.
C13_DryRunNoEffect ==
  env.dryRun =>
    /\ dstRepos = {} /\ dstTags = EmptyTags
    /\ \A i \in Started :
         /\ inv[i].pc \in {"invoke", "done"}
         /\ inv[i].creates = 0 /\ inv[i].lkFails = 0 /\ inv[i].nw = 0
         /\ inv[i].tags = << >> /\ inv[i].srcDigest = None
         /\ inv[i].err \notin MirrorErrors

\* A sweep of three repositories has completed in dry-run.
C13_Witness ==
  /\ env.dryRun /\ Len(inv) = 3
  /\ \A i \in Started : inv[i].mirrors = 1 /\ inv[i].err = None
  /\ inv[3].completed

\* ---------------------------------------------------------------- order
\* Trigger c started a chain in index mode, and every invocation of the chain
\* resolved the list the first one resolved.
SameList(c) ==
  /\ c \in Started /\ inv[c].chain = c /\ ~inv[c].explicit
  /\ \A i \in ChainOf(c) : inv[i].loaded /\ inv[i].repos = inv[c].repos

\* The number of invocations of its chain that began before invocation i.
Rank(i) == Cardinality({j \in ChainOf(inv[i].chain) : j < i})

\* The passes of a chain go through the list position by position from the
\* starting index: the k-th invocation works at index s + k - 1, mirrors at
\* most once and then the repository at its index, and every invocation
\* before another one of the chain has mirrored.
InListOrder(c) ==
  \A i \in ChainOf(c) :
    /\ inv[i].evt.index = inv[c].evt.index + Rank(i)
    /\ inv[i].mirrors <= 1
    /\ inv[i].mirrors = 1 => inv[i].cur = inv[c].repos[inv[i].evt.index + 1]
    /\ \A j \in ChainOf(c) : i < j => inv[i].mirrors = 1

\* C14: the passes of a chain whose invocations all resolve one list L go
\* through L position by position from the starting index s: L[s], L[s+1],
\* ..., each position at most once, none before an earlier one and none left
\* out up to the last one mirrored.
C14_ContiguousRun ==
  \A c \in Started : SameList(c) => InListOrder(c)

\* A chain has gone through a list of three entries whose third names the
\* first repository again.
C14_Witness ==
  /\ SameList(1) /\ Len(inv) = 3
  /\ \A i \in Started : inv[i].mirrors = 1 /\ inv[i].pc = "done"
  /\ inv[1].cur = inv[3].cur /\ inv[2].cur # inv[1].cur

\* ---------------------------------------------------------------- one per invocation
\* The pass of invocation i is over: its locals are gone.
PassOver(i) ==
  inv[i].tags = << >> /\ inv[i].k = 0 /\ inv[i].srcDigest = None

\* No invocation mirrors twice, and a continuation is decided on and
\* dispatched only by an invocation whose one pass is over.
DispatchAfterPass ==
  \A i \in Started :
    /\ inv[i].mirrors <= 1
    /\ inv[i].pc = "invoke" => inv[i].mirrors = 1 /\ PassOver(i)
    /\ inv[i].dispatched # {} =>
         inv[i].mirrors = 1 /\ PassOver(i) /\ inv[i].pc = "done"
    /\ inv[i].pc \in {"auth", "describe", "create"} \cup TagPcs =>
         inv[i].mirrors = 1 /\ inv[i].dispatched = {}

\* C15 (as stated): every invocation mirrors exactly one repository, and
\* decides on the continuation only after that pass has returned.
C15_Original ==
  /\ DispatchAfterPass
  /\ \A i \in Started : inv[i].mirrors = 1

\* C15 (amended): every invocation mirrors at most one repository, and
\* exactly one unless it returns before the pass (the list failed to load or
\* is empty, or the index is at or past its end); the continuation is decided
\* on and dispatched only after that pass has returned.
C15_OnePass ==
  /\ DispatchAfterPass
  /\ \A i \in Started :
       inv[i].mirrors = 1 <=>
         /\ inv[i].loaded /\ Len(inv[i].repos) > 0
         /\ inv[i].explicit \/ inv[i].evt.index < Len(inv[i].repos)

\* A continuation's invocation is about to dispatch the next one, after its
\* pass wrote a tag.
C15_Witness ==
  \E i \in Started :
    /\ i >= 2 /\ inv[i].pc = "invoke" /\ inv[i].mirrors = 1 /\ inv[i].nw = 1
    /\ inv[i].dispatched = {}

\* ---------------------------------------------------------------- the list's entries
\* No identifier is at two positions of the list.
NoRepeat(repos) ==
  \A a \in 1..Len(repos) : \A b \in 1..Len(repos) :
    a # b => repos[a] # repos[b]

\* C16 (as stated): the list an invocation resolves holds no identifier
\* twice, and no two invocations of one sweep mirror the same repository.
C16_ListDeduplicated ==
  /\ \A i \in Started : inv[i].loaded => NoRepeat(inv[i].repos)
  /\ \A i \in Started : \A j \in ChainOf(inv[i].chain) :
       (i # j /\ inv[i].mirrors = 1 /\ inv[j].mirrors = 1)
         => inv[i].cur # inv[j].cur

\* ---------------------------------------------------------------- tag selection
\* The tag sequence the configuration asks for: the repository's own tag set
\* when one is configured, else every tag the source lists when COPY_ALL_TAGS
\* is true, else "latest".
ConfiguredTags(r) ==
  IF env.repoTags[r] # << >> THEN env.repoTags[r]
  ELSE IF env.copyAll THEN ListedTags(srcReg[r], TagOrder)
  ELSE <<"latest">>

\* C17 (as stated): the tags a pass goes through are the repository's
\* configured tag set, else every listed tag under copy-all, else "latest".
C17_TagSelection ==
  \A i \in Started :
    inv[i].pc \in {"get", "lookup", "transfer"} =>
      inv[i].tags = ConfiguredTags(inv[i].cur)

\* ---------------------------------------------------------------- convergence
\* The destination a pass over repository r leaves when all its calls
\* succeed, under the default tag policy and from a destination that held
\* nothing but, possibly, r's "latest": r's repository, with "latest" at the
\* source's digest, as an index when the source's is one.
MirrorOf(r) ==
  [repos |-> {dstRepoName(r, env)},
   tags  |-> [EmptyTags EXCEPT ![<<dstRepoName(r, env), "latest">>] =
                [digest |-> srcReg[r]["latest"],
                 index  |-> IsIndex(srcReg[r]["latest"])]]]

\* Every invocation has ended, the source was not pushed to, and no call
\* failed but a lookup or a creation call that found the repository created
\* by the other invocation.
EndedClean ==
  /\ Len(inv) >= 1 /\ nSrc = 0
  /\ \A i \in Started : inv[i].pc = "done" /\ inv[i].err \in {None, "exists"}
  /\ \E i \in Started : inv[i].err = None

\* C18: when one or two invocations of the same repository, interleaved in
\* any way (the second may begin at any point of the first), have ended with
\* the source unchanged, the destination's repositories, tags and digests are
\* those one invocation alone leaves.
C18_Convergence ==
  EndedClean => (dstRepos = MirrorOf(Repo(1)).repos /\ dstTags = MirrorOf(Repo(1)).tags)

\* Two overlapping invocations have both written the tag and ended.
C18_Witness ==
  /\ EndedClean /\ Len(inv) = 2 /\ ~inv[2].solo
  /\ inv[1].nw = 1 /\ inv[2].nw = 1

\* ---------------------------------------------------------------- full sync: skips
FsTag(i) == inv[i].tags[inv[i].k]
FsDstDigest(i) == dstTags[<<FsDst(inv[i]), FsTag(i)>>].digest
FsLookupStep(i) == inv[i].pc = "fsLookup" /\ inv'[i] # inv[i]
FsCopyCall(i) == inv[i].pc = "fsCopy" /\ inv'[i].copies = inv[i].copies + 1

EndedWithSuccessor(i) ==
  /\ inv[i].pc = "done" /\ ~inv[i].explicit /\ inv[i].mirrors = 1
  /\ inv[i].err \notin MirrorErrors
  /\ inv[i].evt.index + 1 < Len(inv[i].repos)

\* C20 (as stated): an invocation whose pass succeeded at an index that has a
\* successor ends successfully having dispatched exactly the continuation
\* {index + 1}.
C20_Original ==
  \A i \in Started :
    EndedWithSuccessor(i) =>
      inv[i].err = None /\ inv[i].dispatched = {inv[i].evt.index + 1}

\* C20 (amended): an invocation whose pass succeeded at an index that has a
\* successor ends either successfully, having dispatched exactly the
\* continuation {index + 1}, or with the error of the dispatch call, having
\* dispatched nothing; no invocation dispatches more than one continuation.
C20_OneContinuation ==
  \A i \in Started :
    /\ Cardinality(inv[i].dispatched) <= 1
    /\ EndedWithSuccessor(i) =>
         \/ inv[i].err = None /\ inv[i].dispatched = {inv[i].evt.index + 1}
         \/ inv[i].err = "invoke" /\ inv[i].dispatched = {}

\* The second invocation of a chain has ended successfully with index 2
\* dispatched and queued.
C20_Witness ==
  \E i \in Started :
    /\ i >= 2 /\ EndedWithSuccessor(i) /\ inv[i].err = None
    /\ inv[i].dispatched = {2}
    /\ [index |-> 2, chain |-> inv[i].chain] \in queue

\* ---------------------------------------------------------------- abrupt end
\* Invocation j re-runs the index of invocation i, which the host ended
\* during its pass, and the source was not pushed to since i began.
ReRunOfAborted(i, j) ==
  /\ i < j /\ inv[i].killed /\ inv[i].mirrors = 1
  /\ inv[j].mirrors = 1 /\ inv[j].cur = inv[i].cur
  /\ inv[j].evt.index = inv[i].evt.index
  /\ inv[i].epoch = nSrc

\* An invocation the host ended has dispatched nothing, and nothing of its
\* chain is queued.
AbortedNoDispatch ==
  \A i \in Started :
    inv[i].killed =>
      /\ inv[i].dispatched = {}
      /\ \A job \in queue : job.chain # inv[i].chain

FetchedFromSource(i) ==
  \/ inv[i].srcDigest = srcReg[inv[i].cur][CurTag(i)]
  \/ nSrc > 0 /\ srcReg[inv[i].cur][CurTag(i)] = NewDigest

\* C22: no step removes a destination repository or a tag entry, and an
\* entry changes only by the write of an invocation that copies this tag,
\* which leaves the digest that invocation fetched from the source for the
\* tag.
C22_OnlyGrows ==
  [][/\ dstRepos \subseteq dstRepos'
     /\ \A key \in DOMAIN dstTags :
          /\ dstTags[key].digest # None => dstTags'[key].digest # None
          /\ dstTags'[key] # dstTags[key] =>
               \E i \in Started :
                 /\ inv[i].pc = "transfer" /\ key = <<inv[i].dst, CurTag(i)>>
                 /\ inv[i].nw + 1 = inv'[i].nw
                 /\ inv[i].srcDigest # None /\ FetchedFromSource(i)
                 /\ dstTags'[key].digest = inv[i].srcDigest]_vars

\* Two overlapping invocations have written the tag, the later write with the
\* digest of a push to the source.
C22_Witness ==
  /\ Len(inv) = 2 /\ inv[1].wrote = {"latest"} /\ inv[2].wrote = {"latest"}
  /\ inv[2].epoch = 0 /\ nSrc = 1
  /\ dstTags[<<inv[1].dst, "latest">>].digest = NewDigest

\* ---------------------------------------------------------------- kind preserved
\* The write of invocation i succeeded in this step.
WroteTag(i) ==
  /\ inv[i].pc = "transfer"
  /\ inv'[i].wrote = inv[i].wrote \cup {CurTag(i)}
  /\ inv'[i].nw = inv[i].nw + 1 /\ inv'[i].err # "write"

\* C23: the transfer of a tag that completes leaves under the tag the digest
\* of the source descriptor the pass fetched, as an image index when that
\* descriptor is an index and as a single image otherwise.
C23_KindPreserved ==
  [][\A i \in Started :
       WroteTag(i) =>
         /\ dstTags'[<<inv[i].dst, CurTag(i)>>].digest = inv[i].srcDigest
         /\ dstTags'[<<inv[i].dst, CurTag(i)>>].index = IsIndex(inv[i].srcDigest)
         /\ FetchedFromSource(i)]_vars

\* A pass has written "latest" from a source index, and the destination holds
\* it as an index.
C23_Witness ==
  \E i \in Started :
    /\ "latest" \in inv[i].wrote /\ inv[i].pc = "done"
    /\ IsIndex(srcReg[inv[i].cur]["latest"])
    /\ dstTags[<<inv[i].dst, "latest">>].index
    /\ dstTags[<<inv[i].dst, "latest">>].digest = srcReg[inv[i].cur]["latest"]

\* ---------------------------------------------------------------- empty payload
\* C24 (as stated): an invocation triggered with a zero-length payload or
\* with '{}' works, over a list that has that index, at the configured start
\* index when START_INDEX is an integer, and at index 0 otherwise.
C24_EmptyPayloadStart ==
  \A i \in Started :
    (inv[i].raw.kind \in {"empty", "object"} /\ inv[i].mirrors = 1)
      => inv[i].evt.index = StartIndexOf(env)

\* ---------------------------------------------------------------- a list that changes
\* Invocations i and j of chain c have mirrored the same repository.
MirroredTwice(c) ==
  \E i \in ChainOf(c) : \E j \in ChainOf(c) :
    /\ i < j /\ inv[i].mirrors = 1 /\ inv[j].mirrors = 1
    /\ inv[i].cur = inv[j].cur

\* Some repository of the list invocation i resolved was mirrored by no
\* invocation of i's chain.
LeftOut(i) ==
  \E p \in 1..Len(inv[i].repos) :
    \A j \in ChainOf(inv[i].chain) :
      ~(inv[j].mirrors = 1 /\ inv[j].cur = inv[i].repos[p])

\* C25: every invocation of a chain in index mode mirrors the entry that the
\* list it resolved itself holds at the index it was handed, the index
\* being the chain's starting index plus the number of invocations before
\* it, and logs the completion when that index is the last of its own list.
\* So a chain from index 0 that logs the completion has left out a
\* repository of that list, or mirrored a repository twice, only if its
\* invocations resolved different lists or the list repeats an identifier
\* (and a change of the list does lead to both: the witness).
C25_IndexOnlyCarried ==
  \A c \in Started :
    (inv[c].chain = c /\ ~inv[c].explicit) =>
      \A i \in ChainOf(c) :
        /\ inv[i].evt.index = inv[c].evt.index + Rank(i)
        /\ inv[i].mirrors = 1 => inv[i].cur = inv[i].repos[inv[i].evt.index + 1]
        /\ inv[i].completed => inv[i].evt.index + 1 = Len(inv[i].repos)
        /\ (inv[i].completed /\ inv[c].evt.index = 0
              /\ (LeftOut(i) \/ MirroredTwice(c)))
             => ~SameList(c) \/ ~NoRepeat(inv[c].repos)

\* A chain has logged the completion of its sweep over a list that changed
\* after the first invocation: one repository of the list was never
\* mirrored in the chain, another was mirrored twice.
C25_Witness ==
  \E i \in Started :
    /\ inv[i].completed /\ inv[inv[i].chain].evt.index = 0
    /\ NoRepeat(inv[i].repos) /\ NoRepeat(inv[inv[i].chain].repos)
    /\ LeftOut(i) /\ MirroredTwice(inv[i].chain)

\* ---------------------------------------------------------------- convergence of a sweep
\* The tags a pass over repository r goes through (lines 283-301) while the
\* source stays as it is.
SelectedTags(r) ==
  IF env.copyAll THEN ListedTags(srcReg[r], TagOrder) ELSE <<"latest">>

\* Chain c started at index 0 in index mode, all its invocations resolved the
\* same list, and one of them has logged the completion of the sweep.
SweepCompleted(c) ==
  /\ SameList(c) /\ inv[c].evt.index = 0
  /\ \E i \in ChainOf(c) : inv[i].completed

\* C26: when a chain started at index 0 has logged the completion of its
\* sweep, with dry-run off, the list resolved alike by every invocation and
\* the source pushed to by nobody, the destination holds, for every
\* repository of the list and every tag selected for it, that tag with the
\* source's digest, as an index when the source's is one.
C26_SweepConverges ==
  \A c \in Started :
    (SweepCompleted(c) /\ ~env.dryRun /\ nSrc = 0) =>
      \A p \in 1..Len(inv[c].repos) :
        LET r == inv[c].repos[p]
            tags == SelectedTags(r)
        IN  \A k \in 1..Len(tags) :
              /\ dstRepoName(r, env) \in dstRepos
              /\ dstTags[<<dstRepoName(r, env), tags[k]>>] =
                   [digest |-> srcReg[r][tags[k]],
                    index  |-> IsIndex(srcReg[r][tags[k]])]

\* A chain over a list of three repositories has logged the completion of
\* its sweep with dry-run off, each of its three invocations having written.
C26_Witness ==
  \E c \in Started :
    /\ SweepCompleted(c) /\ ~env.dryRun /\ nSrc = 0
    /\ Len(inv[c].repos) = 3 /\ NoRepeat(inv[c].repos)
    /\ \A i \in ChainOf(c) : inv[i].nw = 1

====
